---- MODULE Spec2Model ----
(***************************************************************************)
(* A model of parse_v1150.py: the decoder of X-Plane earth_nav.dat rows.   *)
(* Text is a sequence of one-character strings; the string methods the     *)
(* program calls (strip, lstrip, split(" ", 1), startswith, int, float)    *)
(* are operators over such sequences.  The driver main() is a state        *)
(* machine that takes one step per iteration of its for loop.              *)
(***************************************************************************)
EXTENDS Integers, Sequences, FiniteSets, TLC

VARIABLES file, idx, record_no, out, pc, err, probe

vars == <<file, idx, record_no, out, pc, err, probe>>

(***************************************************************************)
(* Python values.                                                          *)
(***************************************************************************)
None == "None"

OFFSET == 3

END_ROW_CODE_STR == <<"9", "9">>

(* The characters str.strip() and str.lstrip() remove, as far as the model's *)
(* alphabet holds them: space, tab, newline.                               *)
Whitespace == {" ", "\t", "\n"}

Digits == {"0", "1", "2", "3", "4", "5", "6", "7", "8", "9"}

DigitVal(c) ==
    CASE c = "0" -> 0 [] c = "1" -> 1 [] c = "2" -> 2 [] c = "3" -> 3
      [] c = "4" -> 4 [] c = "5" -> 5 [] c = "6" -> 6 [] c = "7" -> 7
      [] c = "8" -> 8 [] c = "9" -> 9

(***************************************************************************)
(* str methods.                                                            *)
(***************************************************************************)
RECURSIVE lstrip(_)
lstrip(s) ==
    IF s # <<>> /\ Head(s) \in Whitespace THEN lstrip(Tail(s)) ELSE s

RECURSIVE rstrip(_)
rstrip(s) ==
    IF s # <<>> /\ s[Len(s)] \in Whitespace
    THEN rstrip(SubSeq(s, 1, Len(s) - 1))
    ELSE s

strip(s) == rstrip(lstrip(s))

startswith(s, prefix) ==
    /\ Len(s) >= Len(prefix)
    /\ SubSeq(s, 1, Len(prefix)) = prefix

(* The index of the first occurrence of character c in s, 0 when absent.   *)
find(s, c) ==
    IF \E i \in 1..Len(s) : s[i] = c
    THEN CHOOSE i \in 1..Len(s) : s[i] = c /\ \A j \in 1..(i - 1) : s[j] # c
    ELSE 0

(* s.split(" ", 1): a list of one element when s holds no space, else the  *)
(* text before the first space and the text after it.                      *)
split1(s) ==
    LET k == find(s, " ")
    IN  IF k = 0 THEN <<s>>
        ELSE <<SubSeq(s, 1, k - 1), SubSeq(s, k + 1, Len(s))>>

(***************************************************************************)
(* The outcome of a call: it returns a value, returns None, or raises.     *)
(***************************************************************************)
Return(v) == [status |-> "return", none |-> FALSE, value |-> v]

ReturnNone == [status |-> "return", none |-> TRUE]

Raise(exc) == [status |-> "raise", exc |-> exc]

Raised(r) == r.status = "raise"

IsNone(r) == r.status = "return" /\ r.none

(***************************************************************************)
(* int(text) and float(text).  Both strip surrounding whitespace, accept   *)
(* an optional sign and raise ValueError on anything else the alphabet of  *)
(* the model can spell.  A float is kept exactly, as mant / 10^exp with    *)
(* the trailing zeros of the fraction removed.                             *)
(***************************************************************************)
AllDigits(s) == s # <<>> /\ \A i \in 1..Len(s) : s[i] \in Digits

RECURSIVE digits_value(_)
digits_value(s) ==
    IF s = <<>> THEN 0
    ELSE 10 * digits_value(SubSeq(s, 1, Len(s) - 1)) + DigitVal(s[Len(s)])

Unsigned(s) == IF s # <<>> /\ Head(s) \in {"-", "+"} THEN Tail(s) ELSE s

Sign(s) == IF s # <<>> /\ Head(s) = "-" THEN -1 ELSE 1

int(text) ==
    LET s == strip(text)
        u == Unsigned(s)
    IN  IF AllDigits(u) THEN Return(Sign(s) * digits_value(u))
        ELSE Raise("ValueError")

RECURSIVE normal(_, _)
normal(mant, exp) ==
    IF exp > 0 /\ mant % 10 = 0 THEN normal(mant \div 10, exp - 1)
    ELSE [mant |-> mant, exp |-> exp]

float(text) ==
    LET s == strip(text)
        u == Unsigned(s)
        k == find(u, ".")
        whole == IF k = 0 THEN u ELSE SubSeq(u, 1, k - 1)
        frac == IF k = 0 THEN <<>> ELSE SubSeq(u, k + 1, Len(u))
    IN  IF /\ whole \o frac # <<>>
           /\ \A i \in 1..Len(whole) : whole[i] \in Digits
           /\ \A i \in 1..Len(frac) : frac[i] \in Digits
        THEN Return(normal(Sign(s) * digits_value(whole \o frac), Len(frac)))
        ELSE Raise("ValueError")

(***************************************************************************)
(* The class enumerations, members in definition order, and their lookups. *)
(***************************************************************************)
NDB ==
    << [name |-> "LOCATOR", value |-> 15],
       [name |-> "LOW_POWER", value |-> 25],
       [name |-> "NORMAL", value |-> 50],
       [name |-> "HIGH_POWER", value |-> 75] >>

VOR ==
    << [name |-> "TERMINAL", value |-> 25],
       [name |-> "LOW_ALTITUDE", value |-> 40],
       [name |-> "HIGH_ALTITUDE", value |-> 130],
       [name |-> "UNSPECIFIED", value |-> 125] >>

(* The lookup matching by range: the first member that reaches number.     *)
RECURSIVE lookup_range(_, _)
lookup_range(members, number) ==
    IF members = <<>> THEN ReturnNone
    ELSE IF number <= Head(members).value THEN Return(Head(members))
    ELSE lookup_range(Tail(members), number)

(* for member in enum: if member == number: return member; return None     *)
RECURSIVE lookup(_, _)
lookup(members, number) ==
    IF members = <<>> THEN ReturnNone
    ELSE IF Head(members).value = number THEN Return(Head(members))
    ELSE lookup(Tail(members), number)

ndb_code(number) == lookup(NDB, number)

(* The VOR lookup scanning the NDB enumeration.                            *)
vor_code_ndb(number) == lookup(NDB, number)

vor_code(number) == lookup(VOR, number)

(* member.name if member else None: None is falsy, and so is an IntEnum    *)
(* member of value 0.                                                      *)
class_name(member) ==
    IF ~member.none /\ member.value.value # 0 THEN member.value.name ELSE None

(***************************************************************************)
(* The tokenizer step every decoder repeats:                               *)
(*     field, rest = rest.lstrip().split(" ", 1)                           *)
(* fields(payload, n) is n such steps: the n fields and the remainder, or  *)
(* the ValueError of the unpacking when a step finds no space to split at. *)
(***************************************************************************)
RECURSIVE fields_defaulted(_, _)
fields_defaulted(rest, n) ==
    IF n = 0 THEN [status |-> "return", f |-> <<>>, rest |-> rest]
    ELSE LET p == split1(lstrip(rest))
             r == fields_defaulted(IF Len(p) < 2 THEN <<>> ELSE p[2], n - 1)
         IN  [r EXCEPT !.f = <<p[1]>> \o @]

RECURSIVE fields(_, _)
fields(rest, n) ==
    IF n = 0 THEN [status |-> "return", f |-> <<>>, rest |-> rest]
    ELSE LET p == split1(lstrip(rest))
         IN  IF Len(p) < 2 THEN Raise("ValueError")
             ELSE LET r == fields(p[2], n - 1)
                  IN  IF Raised(r) THEN r
                      ELSE [r EXCEPT !.f = <<p[1]>> \o @]

AnyRaised(results) == \E i \in 1..Len(results) : Raised(results[i])

(***************************************************************************)
(* The row decoders.  Each takes its fields with the tokenizer, converts   *)
(* the numeric ones and keeps strip(rest) as the name.  Every failure on   *)
(* the way (an unpacking, int(), float()) is a ValueError, so the order in *)
(* which the program meets them does not show in the outcome.  A record is *)
(* the tuple the decoder returns, its positions named after the variables  *)
(* the program fills them from.                                            *)
(***************************************************************************)
parse_ndb(payload) ==
    LET t == fields(payload, 9)
    IN  IF Raised(t) THEN t
        ELSE LET lat == float(t.f[1])
                 lon == float(t.f[2])
                 elev_ft_above_msl == int(t.f[3])
                 freq_khz == int(t.f[4])
                 ndb_class == int(t.f[5])
             IN  IF AnyRaised(<<lat, lon, elev_ft_above_msl, freq_khz, ndb_class>>)
                 THEN Raise("ValueError")
                 ELSE Return([kind |-> "NDB", row_code |-> 2,
                              lat |-> lat.value, lon |-> lon.value,
                              elev_ft_above_msl |-> elev_ft_above_msl.value,
                              freq_khz |-> freq_khz.value,
                              ndb_class |-> class_name(ndb_code(ndb_class.value)),
                              unused |-> None,
                              local_id |-> t.f[7],
                              ndb_terminal_region_id |-> t.f[8],
                              icao_region_code |-> t.f[9],
                              name |-> strip(t.rest)])

parse_vor(payload) ==
    LET t == fields(payload, 9)
    IN  IF Raised(t) THEN t
        ELSE LET lat == float(t.f[1])
                 lon == float(t.f[2])
                 elev_ft_above_msl == int(t.f[3])
                 freq_mhz_x_100 == int(t.f[4])
                 vor_class == int(t.f[5])
                 slv_var == float(t.f[6])
             IN  IF AnyRaised(<<lat, lon, elev_ft_above_msl, freq_mhz_x_100,
                                vor_class, slv_var>>)
                 THEN Raise("ValueError")
                 ELSE Return([kind |-> "VOR", row_code |-> 3,
                              lat |-> lat.value, lon |-> lon.value,
                              elev_ft_above_msl |-> elev_ft_above_msl.value,
                              freq_mhz_x_100 |-> freq_mhz_x_100.value,
                              vor_class |-> class_name(vor_code(vor_class.value)),
                              slv_var |-> slv_var.value,
                              local_id |-> t.f[7],
                              enrt |-> t.f[8],
                              icao_region_code |-> t.f[9],
                              name |-> strip(t.rest)])

(* parse_loc and parse_gli consume the same layout and differ in the kind  *)
(* and in where the row code comes from.                                   *)
ils_record(kind, payload, row_code) ==
    LET t == fields(payload, 10)
    IN  IF Raised(t) THEN t
        ELSE LET lat == float(t.f[1])
                 lon == float(t.f[2])
                 elev_ft_above_msl == int(t.f[3])
                 freq_mhz_x_100 == int(t.f[4])
                 max_range_nautical_miles == int(t.f[5])
                 bearing_true_degrees == float(t.f[6])
             IN  IF AnyRaised(<<lat, lon, elev_ft_above_msl, freq_mhz_x_100,
                                max_range_nautical_miles, bearing_true_degrees>>)
                 THEN Raise("ValueError")
                 ELSE Return([kind |-> kind, row_code |-> row_code,
                              lat |-> lat.value, lon |-> lon.value,
                              elev_ft_above_msl |-> elev_ft_above_msl.value,
                              freq_mhz_x_100 |-> freq_mhz_x_100.value,
                              max_range_nautical_miles |-> max_range_nautical_miles.value,
                              bearing_true_degrees |-> bearing_true_degrees.value,
                              local_id |-> t.f[7],
                              airport_icao |-> t.f[8],
                              icao_region_code |-> t.f[9],
                              runway_no |-> t.f[10],
                              name |-> strip(t.rest)])

parse_loc(payload, row_code) == ils_record("LOC", payload, row_code)

parse_gli(payload) == ils_record("GLI", payload, 6)

parse_mrk(payload, row_code) ==
    LET t == fields(payload, 10)
    IN  IF Raised(t) THEN t
        ELSE LET lat == float(t.f[1])
                 lon == float(t.f[2])
                 elev_ft_above_msl == int(t.f[3])
                 bearing_true_degrees == float(t.f[6])
             IN  IF AnyRaised(<<lat, lon, elev_ft_above_msl, bearing_true_degrees>>)
                 THEN Raise("ValueError")
                 ELSE Return([kind |-> "MRK", row_code |-> row_code,
                              lat |-> lat.value, lon |-> lon.value,
                              elev_ft_above_msl |-> elev_ft_above_msl.value,
                              unused_freq |-> None,
                              unused_range |-> None,
                              bearing_true_degrees |-> bearing_true_degrees.value,
                              unused_id |-> None,
                              airport_icao |-> t.f[8],
                              icao_region_code |-> t.f[9],
                              runway_no |-> t.f[10],
                              name |-> strip(t.rest)])

parse_dme(payload, row_code) ==
    LET t == fields(payload, 9)
    IN  IF Raised(t) THEN t
        ELSE LET lat == float(t.f[1])
                 lon == float(t.f[2])
                 elev_ft_above_msl == int(t.f[3])
                 freq_mhz_x_100 == int(t.f[4])
                 dme_service_voumne == int(t.f[5])
                 bearing_true_degrees == float(t.f[6])
             IN  IF AnyRaised(<<lat, lon, elev_ft_above_msl, freq_mhz_x_100,
                                dme_service_voumne, bearing_true_degrees>>)
                 THEN Raise("ValueError")
                 ELSE Return([kind |-> "DME", row_code |-> row_code,
                              lat |-> lat.value, lon |-> lon.value,
                              elev_ft_above_msl |-> elev_ft_above_msl.value,
                              freq_mhz_x_100 |-> freq_mhz_x_100.value,
                              dme_service_voumne |-> dme_service_voumne.value,
                              bearing_true_degrees |-> bearing_true_degrees.value,
                              local_id |-> t.f[7],
                              airport_icao |-> t.f[8],
                              icao_region_code |-> t.f[9],
                              name |-> strip(t.rest)])

(* The end of data recognised only when the row is the bare token.        *)
has_data_bare(row) == row # END_ROW_CODE_STR

has_data(row) == ~startswith(row, END_ROW_CODE_STR)

(* The passthrough keeping the first field of the payload only.           *)
echo_first_field(payload, row_code) ==
    LET concept == IF row_code = 14 THEN "FPAP"
                   ELSE IF row_code = 15 THEN "GLS" ELSE "LTP/FTP"
    IN  Return([kind |-> concept, row_code |-> row_code,
                payload |-> split1(lstrip(payload))[1]])

echo(payload, row_code) ==
    LET concept == IF row_code = 14 THEN "FPAP"
                   ELSE IF row_code = 15 THEN "GLS" ELSE "LTP/FTP"
    IN  Return([kind |-> concept, row_code |-> row_code, payload |-> payload])

(***************************************************************************)
(* The dispatch table of parse(): parser.get(code), None off the table.    *)
(***************************************************************************)
RowCodes == {2, 3, 4, 5, 6, 7, 8, 9, 12, 13, 14, 15, 16}

(* The table of the decoder's other revision: row code 6 goes to the VOR   *)
(* decoder.                                                                *)
parser_vor_for_6(code, payload) ==
    CASE code = 2 -> parse_ndb(payload)
      [] code \in {3, 6} -> parse_vor(payload)
      [] code \in {4, 5} -> parse_loc(payload, code)
      [] code \in {7, 8, 9} -> parse_mrk(payload, code)
      [] code \in {12, 13} -> parse_dme(payload, code)
      [] code \in {14, 15, 16} -> echo(payload, code)
      [] OTHER -> Raise("TypeError")

parser(code, payload) ==
    CASE code = 2 -> parse_ndb(payload)
      [] code = 3 -> parse_vor(payload)
      [] code \in {4, 5} -> parse_loc(payload, code)
      [] code = 6 -> parse_gli(payload)
      [] code \in {7, 8, 9} -> parse_mrk(payload, code)
      [] code \in {12, 13} -> parse_dme(payload, code)
      [] code \in {14, 15, 16} -> echo(payload, code)
      [] OTHER -> Raise("TypeError")

parse(row) ==
    IF ~has_data(row) THEN ReturnNone
    ELSE LET p == split1(row)
         IN  IF Len(p) < 2 THEN Raise("ValueError")
             ELSE LET row_code == int(p[1])
                  IN  IF Raised(row_code) THEN row_code
                      ELSE parser(row_code.value, p[2])

(***************************************************************************)
(* The input.  A data line is written from the fields the format documents *)
(* for its row code (the decoders' docstrings): the row code, the fields   *)
(* and the name, separated by runs of blanks, ended by the newline that    *)
(* readlines() keeps.                                                      *)
(***************************************************************************)
DigitChar(d) == <<"0", "1", "2", "3", "4", "5", "6", "7", "8", "9">>[d + 1]

RECURSIVE Numeral(_)
Numeral(n) ==
    IF n < 0 THEN <<"-">> \o Numeral(-n)
    ELSE IF n < 10 THEN <<DigitChar(n)>>
    ELSE Numeral(n \div 10) \o <<DigitChar(n % 10)>>

(* A numeric field: its text in the file and the value it stands for.  An  *)
(* integer n, and the decimal whole.tenths (whole # 0, tenths one digit).  *)
I(n) == [text |-> Numeral(n), value |-> n]

D(whole, tenths) ==
    [text |-> Numeral(whole) \o <<".">> \o Numeral(tenths),
     value |-> IF tenths = 0 THEN [mant |-> whole, exp |-> 0]
               ELSE [mant |-> 10 * whole + (IF whole < 0 THEN -tenths ELSE tenths),
                     exp |-> 1]]

RECURSIVE Join(_, _)
Join(tokens, sep) ==
    IF tokens = <<>> THEN <<>>
    ELSE IF Len(tokens) = 1 THEN tokens[1]
    ELSE tokens[1] \o sep \o Join(Tail(tokens), sep)

Line(lead, tokens, sep) == lead \o Join(tokens, sep) \o <<"\n">>

One == <<" ">>

Two == <<" ", " ">>

Tab == <<"\t">>

(* What the format says a row holds.  num is the numeric fields in order,  *)
(* txt the identifier fields in order, runway the runway designator (the   *)
(* empty text when the row has none) and name the free text.               *)
Row(code, num, txt, runway, name) ==
    [code |-> code, num |-> num, txt |-> txt, runway |-> runway, name |-> name]

Tokens(row) ==
    <<Numeral(row.code)>> \o [i \in 1..Len(row.num) |-> row.num[i].text]
        \o row.txt
        \o (IF row.runway = <<>> THEN <<>> ELSE <<row.runway>>)
        \o <<row.name>>

NdbRow(class) ==
    Row(2, <<D(5, 6), D(-1, 1), I(0), I(409), I(class), D(1, 0)>>,
        <<<<"A", "A">>, <<"E", "N">>, <<"D", "G">>>>, <<>>,
        <<"A", "C", " ", "N">>)

VorRow(class) ==
    Row(3, <<D(40, 8), D(-117, 8), I(4299), I(10820), I(class), D(16, 0)>>,
        <<<<"I", "N">>, <<"E", "N">>, <<"K", "2">>>>, <<>>,
        <<"W", " ", "V">>)

IlsRow(code) ==
    Row(code, <<D(36, 6), D(3, 2), I(131), I(11030), I(18), D(84112, 6)>>,
        <<<<"A", "G">>, <<"D", "A">>, <<"D", "Z">>>>, <<"2", "3">>,
        <<"C", "3">>)

MrkRow(code) ==
    Row(code, <<D(36, 7), D(3, 3), I(82), I(0), I(0), D(232, 6)>>,
        <<<<"-", "-">>, <<"D", "A">>, <<"D", "Z">>>>, <<"0", "9", "L">>,
        <<"O", "M">>)

(* A DME of an ILS names its runway; an enroute DME has none.              *)
DmeRow(code, runway) ==
    Row(code, <<D(-9, 4), D(147, 2), I(128), I(11010), I(18), D(1, 2)>>,
        <<<<"I", "W">>, <<"A", "Y">>, <<"A", "Z">>>>, runway,
        <<"D", " ", "I">>)

StructuredCodes == {2, 3, 4, 5, 6, 7, 8, 9, 12, 13}

WellFormedRows ==
    {NdbRow(c) : c \in {25, 99}} \cup {VorRow(c) : c \in {125, 50}}
        \cup {IlsRow(c) : c \in {4, 5, 6}} \cup {MrkRow(c) : c \in {7, 8, 9}}
        \cup {DmeRow(12, <<"1", "4", "L">>), DmeRow(13, <<>>)}

(* A well-formed row as the file spells it: fields one blank apart, or     *)
(* right-aligned in columns with a leading blank as in the shipped data.   *)
Spelled(row) == {Line(<<>>, Tokens(row), One), Line(One, Tokens(row), Two)}

(* The number of payload fields of a row code's layout, the name included: *)
(* one more than the decoder makes tokenizer steps.                        *)
Layout(code) == IF code \in {2, 3, 12, 13} THEN 10 ELSE 11

(* The row cut off after its first n payload fields.                       *)
Truncated(row, n) == Line(<<>>, SubSeq(Tokens(row), 1, n + 1), One)

(* The passthrough rows: a row code and a payload kept as it stands.       *)
EchoPayload == <<"a", " ", " ", "b", "\t", "c">>

EchoLine(code) == Numeral(code) \o One \o EchoPayload \o <<"\n">>

(* Lines led by a token that is not a row code of the table.               *)
OtherLine(lead) == lead \o One \o <<"x", " ", "y", "\n">>

TruncatedLines ==
    {Truncated(r, Layout(r.code) - 1) : r \in {NdbRow(25), VorRow(125), IlsRow(4),
                                               IlsRow(6), MrkRow(8), DmeRow(13, <<>>)}}
        \cup {Truncated(r, 2) : r \in {IlsRow(5), MrkRow(7), MrkRow(9),
                                       DmeRow(12, <<"1", "4", "L">>)}}

SentinelLines ==
    {<<"9", "9", "\n">>, OtherLine(<<"9", "9">>), <<"9", "9">> \o Tab \o <<"x", "\n">>}

OtherLines ==
    {OtherLine(<<"9", "9", "0">>), OtherLine(<<"9", "9", "1", "2">>),
     OtherLine(<<"0", "9", "9">>), OtherLine(<<"2", "0">>), OtherLine(<<"1">>),
     OtherLine(<<"x">>), <<"\n">>, <<"2", "\n">>,
     Line(<<>>, Tokens(NdbRow(25)), Tab),
     Line(<<>>, Tokens([NdbRow(25) EXCEPT !.num[3] = [text |-> <<"x">>, value |-> 0]]), One)}

(* A row written with blanks between its tokens but for one tab, after the *)
(* n-th token.                                                             *)
TabAfter(row, n) ==
    Join(SubSeq(Tokens(row), 1, n), One) \o Tab
        \o Join(SubSeq(Tokens(row), n + 1, Len(Tokens(row))), One) \o <<"\n">>

(* The spellings of a row that put tabs where the others put blanks: a tab *)
(* between every two tokens, and one tab between the identifier and the    *)
(* region of an NDB row.                                                   *)
TabSpelled(row) == {Line(<<>>, Tokens(row), Tab), TabAfter(row, 8)}

Catalog ==
    UNION {Spelled(r) : r \in WellFormedRows}
        \cup {EchoLine(c) : c \in {14, 15, 16}}
        \cup TruncatedLines \cup SentinelLines \cup OtherLines
        \cup TabSpelled(NdbRow(25))

(* The lines main() skips.                                                 *)
Header == <<<<"I", "\n">>, <<"1", "1", "5", "0", " ", "V", "\n">>, <<"\n">>>>

MaxLines == 2

RECURSIVE Files(_)
Files(n) ==
    IF n = 0 THEN {Header}
    ELSE LET shorter == Files(n - 1)
         IN  shorter \cup {Append(f, l) : f \in {g \in shorter : Len(g) = Len(Header) + n - 1},
                                          l \in Catalog}

(***************************************************************************)
(* main(): one step per iteration of the for loop over readlines()[OFFSET:]*)
(***************************************************************************)
(* The slice that starts one line early.                                   *)
rows_from_offset == SubSeq(file, OFFSET, Len(file))

rows == SubSeq(file, OFFSET + 1, Len(file))

(* The last call of a class lookup made on its own: none yet.              *)
NoCall == [fn |-> "", number |-> 0, result |-> ReturnNone]

Init ==
    /\ file \in Files(MaxLines)
    /\ idx = 0
    /\ record_no = 0
    /\ out = <<>>
    /\ pc = "READING"
    /\ err = None
    /\ probe = NoCall

(* record = parse(row.strip()) of the row the loop is at.                  *)
record == parse(strip(rows[idx + 1]))

(* A record came back: print(record_no, record) and go on.                 *)
Emit ==
    /\ pc = "READING"
    /\ idx < Len(rows)
    /\ record.status = "return" /\ ~record.none
    /\ out' = Append(out, [record_no |-> record_no + 1, record |-> record.value])
    /\ record_no' = record_no + 1
    /\ idx' = idx + 1
    /\ UNCHANGED <<file, pc, err, probe>>

(* parse returned None: break.                                             *)
Break ==
    /\ pc = "READING"
    /\ idx < Len(rows)
    /\ IsNone(record)
    /\ pc' = "DONE"
    /\ record_no' = record_no + 1
    /\ idx' = idx + 1
    /\ UNCHANGED <<file, out, err, probe>>

(* parse raised: nothing catches it, main() ends with the exception.       *)
Fail ==
    /\ pc = "READING"
    /\ idx < Len(rows)
    /\ Raised(record)
    /\ pc' = "FAILED"
    /\ err' = record.exc
    /\ record_no' = record_no + 1
    /\ idx' = idx + 1
    /\ UNCHANGED <<file, out, probe>>

(* A loop that takes running out of lines before the 99 row for an error.  *)
EndOfInput_needs_sentinel ==
    /\ pc = "READING"
    /\ idx = Len(rows)
    /\ pc' = "FAILED"
    /\ err' = "StopIteration"
    /\ UNCHANGED <<file, idx, record_no, out, probe>>

(* The list is exhausted: the loop ends.                                   *)
EndOfInput ==
    /\ pc = "READING"
    /\ idx = Len(rows)
    /\ pc' = "DONE"
    /\ UNCHANGED <<file, idx, record_no, out, err, probe>>

Next == Emit \/ Break \/ Fail \/ EndOfInput

Spec == Init /\ [][Next]_vars

(***************************************************************************)
(* The class lookups called on their own, on every integer of a range that *)
(* holds all the members and their neighbours.                             *)
(***************************************************************************)
MaxCode == 135

InitLookup ==
    /\ file = Header
    /\ idx = 0
    /\ record_no = 0
    /\ out = <<>>
    /\ pc = "READING"
    /\ err = None
    /\ probe = NoCall

CallNdbCode ==
    /\ \E n \in (-MaxCode)..MaxCode :
          probe' = [fn |-> "ndb_code", number |-> n, result |-> ndb_code(n)]
    /\ UNCHANGED <<file, idx, record_no, out, pc, err>>

CallVorCode ==
    /\ \E n \in (-MaxCode)..MaxCode :
          probe' = [fn |-> "vor_code", number |-> n, result |-> vor_code(n)]
    /\ UNCHANGED <<file, idx, record_no, out, pc, err>>

NextLookup == CallNdbCode \/ CallVorCode

LookupSpec == InitLookup /\ [][NextLookup]_vars

(***************************************************************************)
(* Reading a line the way the format describes it, for the properties.     *)
(***************************************************************************)
(* The index of the first whitespace character of s, 0 when it has none.   *)
FirstBlank(s) ==
    IF \E i \in 1..Len(s) : s[i] \in Whitespace
    THEN CHOOSE i \in 1..Len(s) :
             s[i] \in Whitespace /\ \A j \in 1..(i - 1) : s[j] \notin Whitespace
    ELSE 0

(* The leading token of a line: the text up to its first blank.            *)
LeadToken(line) ==
    LET t == strip(line)
        k == FirstBlank(t)
    IN  IF k = 0 THEN t ELSE SubSeq(t, 1, k - 1)

(* The line's leading integer row code is one of codes.                    *)
HasCode(line, codes) ==
    LET c == int(LeadToken(line))
    IN  c.status = "return" /\ c.value \in codes

(* The line's leading token is an integer that is none of codes.           *)
HasCodeOutside(line, codes) ==
    LET c == int(LeadToken(line))
    IN  c.status = "return" /\ c.value \notin codes

(* The line is the end-of-data row: its row code is written 99.            *)
IsSentinel(line) == LeadToken(line) = <<"9", "9">>

(* The number of whitespace-delimited tokens of a text.                    *)
RECURSIVE TokenCount(_)
TokenCount(s) ==
    LET t == lstrip(s)
        k == FirstBlank(t)
    IN  IF t = <<>> THEN 0
        ELSE IF k = 0 THEN 1
        ELSE 1 + TokenCount(SubSeq(t, k + 1, Len(t)))

(* Everything after the row code and the one character that delimits it.   *)
PayloadOf(line) ==
    LET t == strip(line)
    IN  SubSeq(t, Len(LeadToken(line)) + 2, Len(t))

(* The outcome of decoding each line of the catalog.                       *)
Decoded == [l \in Catalog |-> parse(strip(l))]

Decodable(line) == Decoded[line].status = "return" /\ ~Decoded[line].none

(* The lookup returned the member of this name and value.                  *)
Member(result, name, value) ==
    result = Return([name |-> name, value |-> value])

(***************************************************************************)
(* C3.  The class lookups are total exact-match functions: ndb_code(n) is  *)
(* LOCATOR, LOW_POWER, NORMAL, HIGH_POWER for n = 15, 25, 50, 75 and None  *)
(* for every other integer; vor_code(n) is TERMINAL, LOW_ALTITUDE,         *)
(* HIGH_ALTITUDE, UNSPECIFIED for n = 25, 40, 130, 125 and None for every  *)
(* other integer.  No range of numbers matches a member.                   *)
(***************************************************************************)
C3_LookupsExact ==
    /\ probe.fn = "ndb_code" =>
          CASE probe.number = 15 -> Member(probe.result, "LOCATOR", 15)
            [] probe.number = 25 -> Member(probe.result, "LOW_POWER", 25)
            [] probe.number = 50 -> Member(probe.result, "NORMAL", 50)
            [] probe.number = 75 -> Member(probe.result, "HIGH_POWER", 75)
            [] OTHER -> probe.result = ReturnNone
    /\ probe.fn = "vor_code" =>
          CASE probe.number = 25 -> Member(probe.result, "TERMINAL", 25)
            [] probe.number = 40 -> Member(probe.result, "LOW_ALTITUDE", 40)
            [] probe.number = 130 -> Member(probe.result, "HIGH_ALTITUDE", 130)
            [] probe.number = 125 -> Member(probe.result, "UNSPECIFIED", 125)
            [] OTHER -> probe.result = ReturnNone

(* vor_code was asked for 50, an NDB class below HIGH_ALTITUDE: None.      *)
C3_Witness ==
    probe.fn = "vor_code" /\ probe.number = 50 /\ probe.result = ReturnNone

(***************************************************************************)
(* C1.  When the driver reaches the first line whose row code is 99 it     *)
(* stops there without a failure: the line is not emitted, only the lines  *)
(* before it are, and no later line is ever read, whatever the payload of  *)
(* the sentinel and whatever the later lines hold.                         *)
(***************************************************************************)
C1_StopsAtSentinel ==
    \A i \in 1..idx :
        IsSentinel(rows[i]) =>
            /\ idx = i
            /\ pc = "DONE"
            /\ err = None
            /\ Len(out) = i - 1

(* A sentinel with a payload was read and a row with an unsupported code   *)
(* or too few fields follows it.                                           *)
C1_Witness ==
    /\ idx = 1 /\ Len(rows) = 2
    /\ rows[1] = OtherLine(<<"9", "9">>)
    /\ rows[2] \in TruncatedLines \cup {OtherLine(<<"2", "0">>)}
    /\ pc = "DONE"

(***************************************************************************)
(* C2.  A line read before the sentinel whose leading integer row code is  *)
(* outside the dispatch set fails the whole stream: the driver ends with   *)
(* a failure at that line, no record is emitted for it and no later line   *)
(* is read.                                                                *)
(***************************************************************************)
C2_UnknownRowCodeFatal ==
    \A i \in 1..idx :
        HasCodeOutside(rows[i], RowCodes \cup {99}) =>
            /\ idx = i
            /\ pc = "FAILED"
            /\ Len(out) = i - 1

(***************************************************************************)
(* C9.  The driver ends the stream without a failure on a line only if     *)
(* the leading integer row code of that line equals 99; any other integer, *)
(* 990 or 9912 included, is dispatched and fails as an unknown row code.   *)
(***************************************************************************)
C9_DoneOnlyOnCode99 ==
    \A i \in 1..idx :
        (pc = "DONE" /\ idx = i /\ Len(out) < i) => HasCode(rows[i], {99})

(***************************************************************************)
(* The record the format says a well-formed NDB or VOR row stands for,     *)
(* with class as its classification.                                       *)
(***************************************************************************)
ExpectedNdb(row, class) ==
    [kind |-> "NDB", row_code |-> 2,
     lat |-> row.num[1].value, lon |-> row.num[2].value,
     elev_ft_above_msl |-> row.num[3].value, freq_khz |-> row.num[4].value,
     ndb_class |-> class, unused |-> None,
     local_id |-> row.txt[1], ndb_terminal_region_id |-> row.txt[2],
     icao_region_code |-> row.txt[3], name |-> row.name]

ExpectedVor(row, class) ==
    [kind |-> "VOR", row_code |-> 3,
     lat |-> row.num[1].value, lon |-> row.num[2].value,
     elev_ft_above_msl |-> row.num[3].value, freq_mhz_x_100 |-> row.num[4].value,
     vor_class |-> class, slv_var |-> row.num[6].value,
     local_id |-> row.txt[1], enrt |-> row.txt[2],
     icao_region_code |-> row.txt[3], name |-> row.name]

(* The well-formed NDB and VOR rows whose class code names no member.      *)
Unclassified ==
    {[row |-> NdbRow(99), record |-> ExpectedNdb(NdbRow(99), None)],
     [row |-> VorRow(50), record |-> ExpectedVor(VorRow(50), None)]}

(***************************************************************************)
(* C4.  A well-formed NDB or VOR row whose class code is an integer        *)
(* outside the enumeration does not abort decoding: its record is emitted  *)
(* with a null classification and every other field decoded as usual, and  *)
(* the driver goes on reading the lines after it.                          *)
(***************************************************************************)
C4_UnclassifiedDecodes ==
    \A i \in 1..idx : \A u \in Unclassified :
        rows[i] \in Spelled(u.row) =>
            /\ Len(out) >= i
            /\ out[i].record = u.record
            /\ (idx = i /\ i < Len(rows)) => pc = "READING"

(* A VOR row of class 50 was emitted with no class, then an NDB row of     *)
(* class 99 after it.                                                      *)
C4_Witness ==
    /\ idx = 2 /\ Len(out) = 2 /\ pc = "READING"
    /\ rows[1] \in Spelled(VorRow(50)) /\ out[1].record.vor_class = None
    /\ rows[2] \in Spelled(NdbRow(99)) /\ out[2].record.ndb_class = None

(* The payload of a structured row has fewer fields than its layout.       *)
TooFewFields(line) ==
    \E c \in StructuredCodes :
        HasCode(line, {c}) /\ TokenCount(PayloadOf(line)) < Layout(c)

(***************************************************************************)
(* C5.  A line with a structured row code (2..9, 12, 13) whose payload has *)
(* fewer whitespace-delimited fields than the layout of that code fails    *)
(* the whole stream: no record is emitted for it and no later line is      *)
(* read.                                                                   *)
(***************************************************************************)
C5_TruncatedRowFatal ==
    \A i \in 1..idx :
        TooFewFields(rows[i]) =>
            /\ idx = i
            /\ pc = "FAILED"
            /\ Len(out) = i - 1

(* A DME row that lacks only its name was read after an emitted record:    *)
(* the driver failed there with nothing emitted for it.                    *)
C5_Witness ==
    /\ idx = 2 /\ pc = "FAILED" /\ Len(out) = 1
    /\ rows[2] = Truncated(DmeRow(13, <<>>), Layout(13) - 1)

(* The i-th line after the header lines.                                   *)
DataLine(i) == file[OFFSET + i]

(***************************************************************************)
(* C6.  Records are emitted in input order, one per data line: when the    *)
(* first i data lines (the lines after the OFFSET header lines) are        *)
(* well-formed rows and the driver has read them, the i-th record emitted  *)
(* is the decoding of the i-th data line and carries the number i; no      *)
(* line is skipped, duplicated or reordered.                               *)
(***************************************************************************)
C6_InInputOrder ==
    /\ idx <= Len(file) - OFFSET
    /\ Len(out) <= idx
    /\ \A i \in 1..idx :
          (\A j \in 1..i : Decodable(DataLine(j))) =>
              /\ Len(out) >= i
              /\ out[i].record_no = i
              /\ out[i].record = Decoded[DataLine(i)].value

(* Two different well-formed rows were read and emitted, the DME first.    *)
C6_Witness ==
    /\ idx = 2 /\ Len(out) = 2
    /\ HasCode(DataLine(1), {13}) /\ out[1].record.kind = "DME"
    /\ HasCode(DataLine(2), {4}) /\ out[2].record.kind = "LOC"

(* The shape of a passthrough record, and the kind the table gives a code. *)
Passthrough(rec) == DOMAIN rec = {"kind", "row_code", "payload"}

KindOfCode(rec) ==
    CASE rec.row_code = 2 -> rec.kind = "NDB"
      [] rec.row_code = 3 -> rec.kind = "VOR"
      [] rec.row_code \in {4, 5} -> rec.kind = "LOC"
      [] rec.row_code = 6 -> rec.kind = "GLI"
      [] rec.row_code \in {7, 8, 9} -> rec.kind = "MRK"
      [] rec.row_code \in {12, 13} -> rec.kind = "DME"
      [] rec.row_code \in {14, 15, 16} -> Passthrough(rec)
      [] OTHER -> FALSE

(***************************************************************************)
(* C7.  Every emitted record carries a row code of the dispatch set that   *)
(* equals the leading row code of its line, and the kind the table gives   *)
(* that code: 2 NDB, 3 VOR, 4 and 5 LOC, 6 GLI, 7, 8 and 9 MRK, 12 and 13  *)
(* DME, 14, 15 and 16 a passthrough record.                                *)
(***************************************************************************)
C7_RowCodeAndKind ==
    \A i \in 1..Len(out) :
        /\ out[i].record.row_code \in {2, 3, 4, 5, 6, 7, 8, 9, 12, 13, 14, 15, 16}
        /\ HasCode(rows[i], {out[i].record.row_code})
        /\ KindOfCode(out[i].record)

(* A glideslope row and a marker row were emitted.                         *)
C7_Witness ==
    /\ Len(out) = 2
    /\ HasCode(rows[1], {6}) /\ out[1].record.kind = "GLI"
    /\ HasCode(rows[2], {9}) /\ out[2].record.kind = "MRK"

(* A passthrough row as the format writes it, and what it must decode to   *)
(* given the label of row code 16.                                         *)
IsEchoRow(line, code) ==
    /\ HasCode(line, {code})
    /\ Len(strip(line)) > Len(LeadToken(line))
    /\ strip(line)[Len(LeadToken(line)) + 1] = " "

PassthroughHolds(label16) ==
    \A i \in 1..idx : \A c \in {14, 15, 16} :
        IsEchoRow(rows[i], c) =>
            /\ Len(out) >= i
            /\ out[i].record =
                  [kind |-> IF c = 14 THEN "FPAP" ELSE IF c = 15 THEN "GLS" ELSE label16,
                   row_code |-> c,
                   payload |-> PayloadOf(rows[i])]

RunwayOf(rec) == IF "runway_no" \in DOMAIN rec THEN rec.runway_no ELSE <<>>

(***************************************************************************)
(* C10.  A DME row (row code 12 or 13) decodes with the runway designator  *)
(* as a field of its own when the row has one and absent when it has none, *)
(* and in both cases the name is the remaining free text only.             *)
(***************************************************************************)
C10_DmeRunwaySeparate ==
    \A i \in 1..Len(out) : \A r \in {DmeRow(12, <<"1", "4", "L">>), DmeRow(13, <<>>)} :
        rows[i] \in Spelled(r) =>
            /\ out[i].record.name = r.name
            /\ RunwayOf(out[i].record) = r.runway

(***************************************************************************)
(* C11.  A tokenizer step splits at the first run of whitespace, whatever  *)
(* the whitespace characters: an NDB row decodes to the same record        *)
(* whether blanks or tabs, and however many of them, separate its row code *)
(* and its fields.                                                         *)
(***************************************************************************)
C11_AnyWhitespaceDelimits ==
    \A i \in 1..idx : \A r \in {NdbRow(25), NdbRow(99)} :
        rows[i] \in (Spelled(r) \cup TabSpelled(r)) =>
            /\ Len(out) >= i
            /\ out[i].record = Decoded[Line(<<>>, Tokens(r), One)].value

(* The lines of well-formed rows with a supported row code; none is the 99 *)
(* row.  The input is well-formed when every data line is one of them.     *)
WellFormedLines ==
    UNION {Spelled(r) : r \in WellFormedRows} \cup {EchoLine(c) : c \in {14, 15, 16}}

WellFormedInput ==
    \A i \in 1..(Len(file) - OFFSET) : DataLine(i) \in WellFormedLines

(* What is left of the run: the lines not yet read, and the step that ends *)
(* the loop.                                                               *)
Remaining == (Len(file) - OFFSET - idx) + (IF pc = "READING" THEN 1 ELSE 0)

(* The loop is not stuck: the list is exhausted, or parse of the next line *)
(* comes back with a record, with None or with an exception.               *)
CanStep ==
    \/ idx = Len(rows)
    \/ /\ idx < Len(rows)
       /\ \/ record.status = "return" /\ ~record.none
          \/ IsNone(record)
          \/ Raised(record)

(***************************************************************************)
(* C12.  On every finite input the driver terminates: while it is reading  *)
(* it is never stuck, and every step brings it nearer the end of           *)
(* the input, so it leaves the loop after at most one step per data line   *)
(* and one more.  When the data lines are all well-formed rows with        *)
(* supported row codes, none of them the 99 row, it ends at the end of the *)
(* input without a failure, having emitted one record for every data line. *)
(***************************************************************************)
C12_TerminatesWithoutSentinel ==
    /\ [](Remaining >= 0 /\ (pc = "READING" => CanStep))
    /\ [][Remaining' < Remaining]_vars
    /\ [](WellFormedInput /\ pc # "READING" =>
              /\ pc = "DONE"
              /\ err = None
              /\ idx = Len(file) - OFFSET
              /\ Len(out) = Len(file) - OFFSET
              /\ \A i \in 1..Len(out) : out[i].record_no = i)

(* Two well-formed data lines and no 99 row: both emitted, the driver done.*)
C12_Witness ==
    /\ WellFormedInput
    /\ Len(file) - OFFSET = 2
    /\ pc = "DONE" /\ err = None
    /\ Len(out) = 2

====
